---- MODULE Spec2Model ----
(***************************************************************************)
(* Model of the run monitor and the alert manager of                       *)
(* scripts/monitoring/pipeline_monitor.py.                                 *)
(*                                                                         *)
(* PipelineMonitor keeps one dict, active_runs, from run id to a           *)
(* PipelineMetrics object.  Python hands out references, so the model      *)
(* keeps the objects in a heap and the dict maps a run id to a heap        *)
(* reference: what start, get_run_metrics, get_active_runs and complete    *)
(* return is a reference to the very object the monitor mutates.           *)
(*                                                                         *)
(* Optional[...] values are sequences of length at most one: None is <<>>  *)
(* and a present value v is <<v>>.  Timestamps and float samples are       *)
(* integers (seconds, MB, percent).  Keyword arguments are functions from  *)
(* keyword names to values; their names range over the dataclass fields    *)
(* a call can name plus one name that is no attribute of the object, and   *)
(* their values over values of the annotated type of the field.            *)
(*                                                                         *)
(* Further parts, each with its own specification: the monitor called      *)
(* from several threads (SpecThreads), the data-quality report of          *)
(* tests/data_quality and the orchestrator's data-quality step             *)
(* (SpecQuality), HealthChecker.generate_report and main of                *)
(* scripts/monitoring/health_check.py (SpecHealth, SpecHealthMain), the    *)
(* pipeline steps of scripts/orchestrator.py (SpecOrchestrator), the       *)
(* ingestion of scripts/ingestion.py (SpecIngestion), and the monitor      *)
(* under callers that never pass duration_seconds (SpecNoDuration).        *)
(***************************************************************************)
EXTENDS Integers, Sequences, FiniteSets, TLC

VARIABLES
    active_runs,  \* PipelineMonitor.active_runs: the dict, in insertion order
    heap,         \* the PipelineMetrics objects created so far; a reference is an index
    now,          \* the clock read by datetime.utcnow()
    op,           \* the last call made: its name, run id and the exception it raised
    ret,          \* what the last call returned: None, a reference, or a list of references
    logged,       \* the log events the last call emitted through self.logger
    held,         \* the references a caller kept from its last get / get_active_runs
    heldVal,      \* the field values the caller read through them at that time
    alerts,       \* the alerts built by the last check_alerts call, in order
    sent,         \* the outcome of send_alert for each of them, in order
    webhook_url,  \* AlertManager.webhook_url: whether a webhook is configured
    thresholds,   \* AlertManager.thresholds
    nops,         \* number of steps taken so far
    threads,      \* the threads that call the monitor concurrently: call, position, locals
    quality,      \* the data-quality report: the batch column and what was computed from it
    health,       \* the health check: the check results, the report and the exit code
    orch,         \* the orchestrator process: its position, step results, subprocess calls
    ingest        \* the ingestion process: its position, batches, tables, results

\* What the monitor and the alert manager do not touch.
otherVars == <<threads, quality, health, orch, ingest>>

vars == <<active_runs, heap, now, op, ret, logged, held, heldVal, alerts, sent,
          webhook_url, thresholds, nops, threads, quality, health, orch, ingest>>

----------------------------------------------------------------------------
(* Bounds of the model *)

\* Steps of one behaviour: the calls made and the clock's ticks between them.
MaxOps == 3

RunIds == {"r1", "r2"}
PipelineNames == {"p1", "p2"}
Statuses == {"running", "completed", "failed"}
FinalStatuses == {"completed", "failed"}

None == <<>>
Some(v) == <<v>>
Val(o) == o[1]

----------------------------------------------------------------------------
(* PipelineMetrics, the dataclass *)

\* Mutant of PipelineMetrics: the first two constructor arguments swapped.
PipelineMetricsSwapped(p, r, t) ==
    [ pipeline_name     |-> r,
      run_id            |-> p,
      start_time        |-> t,
      end_time          |-> None,
      status            |-> "running",
      records_processed |-> 0,
      errors_count      |-> 0,
      warnings_count    |-> 0,
      duration_seconds  |-> None,
      memory_usage_mb   |-> None,
      cpu_usage_percent |-> None ]

PipelineMetrics(p, r, t) ==
    [ pipeline_name     |-> p,
      run_id            |-> r,
      start_time        |-> t,
      end_time          |-> None,
      status            |-> "running",
      records_processed |-> 0,
      errors_count      |-> 0,
      warnings_count    |-> 0,
      duration_seconds  |-> None,
      memory_usage_mb   |-> None,
      cpu_usage_percent |-> None ]

FieldNames ==
    { "pipeline_name", "run_id", "start_time", "end_time", "status",
      "records_processed", "errors_count", "warnings_count",
      "duration_seconds", "memory_usage_mb", "cpu_usage_percent" }

\* A keyword that is no attribute of a PipelineMetrics object (a typo).
UnknownKey == "recrods_processed"

\* The values the model passes for each keyword.
KwValues(k) ==
    CASE k = "pipeline_name"     -> {"p2"}
      [] k = "start_time"        -> {1}
      [] k = "end_time"          -> {None, Some(0)}
      [] k = "status"            -> Statuses
      [] k = "records_processed" -> {0, 2}
      [] k = "errors_count"      -> {0, 2}
      [] k = "warnings_count"    -> {0, 2}
      [] k = "duration_seconds"  -> {None, Some(5)}
      [] k = "memory_usage_mb"   -> {None, Some(5000)}
      [] k = "cpu_usage_percent" -> {None, Some(95)}
      [] k = UnknownKey          -> {2}

\* The keyword dicts that name one keyword of Keys.
OneKeyword(Keys) == UNION { { k :> v : v \in KwValues(k) } : k \in Keys }

\* **metrics_update of update_pipeline_metrics: any keyword but run_id, which
\* binds to the parameter of that name.  The model passes no keyword, one
\* keyword, or a field together with the typo.
UpdateKeys == (FieldNames \ {"run_id"}) \cup {UnknownKey}
UpdateKwargs ==
    { <<>> } \cup OneKeyword(UpdateKeys)
             \cup { "errors_count" :> 2 @@ UnknownKey :> 2 }

\* **final_metrics of complete_pipeline_monitoring: any keyword but run_id and
\* status, which bind to the parameters of those names.
FinalKeys == (FieldNames \ {"run_id", "status"}) \cup {UnknownKey}
FinalKwargs ==
    { <<>> } \cup OneKeyword(FinalKeys)
             \cup { "records_processed" :> 2 @@ "errors_count" :> 2 }

\* Mutant of SetAttrs: setattr without the hasattr test.
SetAttrsUnchecked(m, kw) == kw @@ m

\* for key, value in kw.items(): if hasattr(metrics, key): setattr(metrics, key, value)
SetAttrs(m, kw) ==
    [ f \in DOMAIN m |-> IF f \in DOMAIN kw THEN kw[f] ELSE m[f] ]

----------------------------------------------------------------------------
(* The dict active_runs: a sequence of [key, ref] entries in insertion order *)

DictKeys(d) == { d[i].key : i \in DOMAIN d }
DictIndex(d, k) == CHOOSE i \in DOMAIN d : d[i].key = k
\* d.get(k)
DictGet(d, k) == IF k \in DictKeys(d) THEN Some(d[DictIndex(d, k)].ref) ELSE None
\* Mutant of DictSet: an existing entry is kept (setdefault).
DictSetDefault(d, k, v) ==
    IF k \in DictKeys(d) THEN d ELSE Append(d, [key |-> k, ref |-> v])
\* d[k] = v : an existing key keeps its position
DictSet(d, k, v) ==
    IF k \in DictKeys(d)
    THEN [ d EXCEPT ![DictIndex(d, k)].ref = v ]
    ELSE Append(d, [key |-> k, ref |-> v])
\* Mutant of DictPop: the entry is read, not removed.
DictPopKeeps(d, k) == d
\* d.pop(k)
DictPop(d, k) == SelectSeq(d, LAMBDA e : e.key # k)
\* list(d.values())
DictValues(d) == [ i \in DOMAIN d |-> d[i].ref ]

LogEvent(level, event) == [level |-> level, event |-> event]
\* A call: its name, the run id it was given ("" when it takes none), and the
\* exception it ended with when it did not return.
Call(name, r) == [name |-> name, run_id |-> r, raised |-> None]
Raise(name, r, exc) == [name |-> name, run_id |-> r, raised |-> Some(exc)]

\* The keywords the closing logger.info call of update and of complete passes
\* by name next to **kwargs.  A keyword that is also in kwargs is passed twice,
\* and Python raises TypeError for the call before the logger is entered.
UpdateLogKeys == {"run_id", "pipeline_name"}
CompleteLogKeys ==
    { "pipeline_name", "run_id", "status", "duration_seconds",
      "records_processed", "errors_count", "warnings_count" }
Collides(kw, keys) == DOMAIN kw \cap keys # {}

----------------------------------------------------------------------------
(* PipelineMonitor *)

\* AlertManager.__init__: self.thresholds, as __init__ sets it
max_duration_minutes == 60
\* max_error_rate is 0.05, kept as the fraction max_error_rate_num / max_error_rate_den
max_error_rate_num == 5
max_error_rate_den == 100
max_memory_usage_mb == 4096
max_cpu_usage_percent == 90
Thresholds ==
    [ max_duration_minutes  |-> max_duration_minutes,
      max_error_rate        |-> [num |-> max_error_rate_num, den |-> max_error_rate_den],
      max_memory_usage_mb   |-> max_memory_usage_mb,
      max_cpu_usage_percent |-> max_cpu_usage_percent ]

\* The parts of the repository that take no part in a scenario stay idle in it.
Idle == <<>>

Init ==
    /\ active_runs = <<>>
    /\ heap = <<>>
    /\ now = 0
    /\ op = Call("init", "")
    /\ ret = None
    /\ logged = <<>>
    /\ held = <<>>
    /\ heldVal = <<>>
    /\ alerts = <<>>
    /\ sent = <<>>
    /\ webhook_url = FALSE
    /\ thresholds = Thresholds
    /\ nops = 0
    /\ orch = Idle
    /\ ingest = Idle
    /\ threads = Idle
    /\ quality = Idle
    /\ health = Idle

\* Time passes between two calls.
Tick ==
    /\ nops < MaxOps
    /\ now' = now + 1
    /\ nops' = nops + 1
    /\ UNCHANGED <<active_runs, heap, op, ret, logged, held, heldVal, alerts, sent, webhook_url, thresholds, otherVars>>

start_pipeline_monitoring(p, r) ==
    LET ref == Len(heap) + 1 IN
    /\ nops < MaxOps
    /\ heap' = Append(heap, PipelineMetrics(p, r, now))
    /\ active_runs' = DictSet(active_runs, r, ref)
    /\ ret' = Some(ref)
    /\ logged' = << LogEvent("info", "Pipeline monitoring started") >>
    /\ op' = Call("start", r)
    /\ nops' = nops + 1
    /\ UNCHANGED <<now, held, heldVal, alerts, sent, webhook_url, thresholds, otherVars>>

\* Mutant of update_pipeline_metrics: an unknown run id gets an entry.
update_pipeline_metrics_upsert(r, kw) ==
    /\ nops < MaxOps
    /\ IF r \notin DictKeys(active_runs)
       THEN /\ heap' = Append(heap, SetAttrs(PipelineMetrics("", r, now), kw))
            /\ active_runs' = DictSet(active_runs, r, Len(heap) + 1)
            /\ logged' = << LogEvent("info", "Pipeline metrics updated") >>
       ELSE LET ref == Val(DictGet(active_runs, r)) IN
            /\ heap' = [ heap EXCEPT ![ref] = SetAttrs(@, kw) ]
            /\ logged' = << LogEvent("info", "Pipeline metrics updated") >>
            /\ UNCHANGED active_runs
    /\ ret' = None
    /\ op' = Call("update", r)
    /\ nops' = nops + 1
    /\ UNCHANGED <<now, held, heldVal, alerts, sent, webhook_url, thresholds, otherVars>>

update_pipeline_metrics(r, kw) ==
    /\ nops < MaxOps
    /\ IF r \notin DictKeys(active_runs)
       THEN /\ logged' = << LogEvent("warning", "Attempted to update metrics for unknown run_id") >>
            /\ UNCHANGED heap
       ELSE LET ref == Val(DictGet(active_runs, r)) IN
            /\ heap' = [ heap EXCEPT ![ref] = SetAttrs(@, kw) ]
            /\ logged' = IF Collides(kw, UpdateLogKeys) THEN <<>>
                         ELSE << LogEvent("info", "Pipeline metrics updated") >>
    /\ ret' = None
    /\ op' = IF r \in DictKeys(active_runs) /\ Collides(kw, UpdateLogKeys)
               THEN Raise("update", r, "TypeError") ELSE Call("update", r)
    /\ nops' = nops + 1
    /\ UNCHANGED <<active_runs, now, held, heldVal, alerts, sent, webhook_url, thresholds, otherVars>>

Finalize(m, status, t) ==
    [ m EXCEPT !.end_time = Some(t),
               !.status = status,
               !.duration_seconds = Some(t - m.start_time) ]

complete_pipeline_monitoring(r, status, kw) ==
    /\ nops < MaxOps
    /\ IF r \notin DictKeys(active_runs)
       THEN /\ logged' = << LogEvent("warning", "Attempted to complete monitoring for unknown run_id") >>
            /\ ret' = None
            /\ UNCHANGED <<heap, active_runs>>
       ELSE LET ref == Val(DictGet(active_runs, r))
                m   == Finalize(heap[ref], status, now)
            IN
            /\ heap' = [ heap EXCEPT ![ref] = SetAttrs(m, kw) ]
            /\ IF Collides(kw, CompleteLogKeys)
                 THEN /\ logged' = <<>>
                      /\ ret' = None
                      /\ UNCHANGED active_runs
                 ELSE /\ logged' = << LogEvent("info", "Pipeline monitoring completed") >>
                      /\ active_runs' = DictPop(active_runs, r)
                      /\ ret' = Some(ref)
    /\ op' = IF r \in DictKeys(active_runs) /\ Collides(kw, CompleteLogKeys)
               THEN Raise("complete", r, "TypeError") ELSE Call("complete", r)
    /\ nops' = nops + 1
    /\ UNCHANGED <<now, held, heldVal, alerts, sent, webhook_url, thresholds, otherVars>>

log_error(r) ==
    /\ nops < MaxOps
    /\ IF r \in DictKeys(active_runs)
       THEN LET ref == Val(DictGet(active_runs, r)) IN
            heap' = [ heap EXCEPT ![ref].errors_count = @ + 1 ]
       ELSE UNCHANGED heap
    /\ logged' = << LogEvent("error", "Pipeline error occurred") >>
    /\ ret' = None
    /\ op' = Call("log_error", r)
    /\ nops' = nops + 1
    /\ UNCHANGED <<active_runs, now, held, heldVal, alerts, sent, webhook_url, thresholds, otherVars>>

\* Mutant of log_warning: it counts an error.
log_warning_counts_error(r) ==
    /\ nops < MaxOps
    /\ IF r \in DictKeys(active_runs)
       THEN LET ref == Val(DictGet(active_runs, r)) IN
            heap' = [ heap EXCEPT ![ref].errors_count = @ + 1 ]
       ELSE UNCHANGED heap
    /\ logged' = << LogEvent("warning", "Pipeline warning") >>
    /\ ret' = None
    /\ op' = Call("log_warning", r)
    /\ nops' = nops + 1
    /\ UNCHANGED <<active_runs, now, held, heldVal, alerts, sent, webhook_url, thresholds, otherVars>>

log_warning(r) ==
    /\ nops < MaxOps
    /\ IF r \in DictKeys(active_runs)
       THEN LET ref == Val(DictGet(active_runs, r)) IN
            heap' = [ heap EXCEPT ![ref].warnings_count = @ + 1 ]
       ELSE UNCHANGED heap
    /\ logged' = << LogEvent("warning", "Pipeline warning") >>
    /\ ret' = None
    /\ op' = Call("log_warning", r)
    /\ nops' = nops + 1
    /\ UNCHANGED <<active_runs, now, held, heldVal, alerts, sent, webhook_url, thresholds, otherVars>>

get_active_runs ==
    /\ nops < MaxOps
    /\ ret' = DictValues(active_runs)
    /\ held' = ret'
    /\ heldVal' = [ i \in DOMAIN ret' |-> heap[ret'[i]] ]
    /\ logged' = <<>>
    /\ op' = Call("get_active_runs", "")
    /\ nops' = nops + 1
    /\ UNCHANGED <<active_runs, heap, now, alerts, sent, webhook_url, thresholds, otherVars>>

get_run_metrics(r) ==
    /\ nops < MaxOps
    /\ ret' = DictGet(active_runs, r)
    /\ held' = ret'
    /\ heldVal' = [ i \in DOMAIN ret' |-> heap[ret'[i]] ]
    /\ logged' = <<>>
    /\ op' = Call("get_run_metrics", r)
    /\ nops' = nops + 1
    /\ UNCHANGED <<active_runs, heap, now, alerts, sent, webhook_url, thresholds, otherVars>>

----------------------------------------------------------------------------
(* AlertManager *)

\* Python's truth value of an Optional[float]: None and 0.0 are false.
Truthy(o) == o # None /\ Val(o) # 0

Alert(type, severity, m) == [type |-> type, severity |-> severity, pipeline_name |-> m.pipeline_name]

\* Mutant of DurationAlert: the limit is taken in seconds (the * 60 is forgotten).
DurationAlertInMinutes(m) ==
    IF Truthy(m.duration_seconds) /\ Val(m.duration_seconds) > thresholds.max_duration_minutes
    THEN << Alert("duration", "warning", m) >>
    ELSE <<>>

DurationAlert(m) ==
    IF Truthy(m.duration_seconds) /\ Val(m.duration_seconds) > thresholds.max_duration_minutes * 60
    THEN << Alert("duration", "warning", m) >>
    ELSE <<>>

\* Mutant of ErrorRateAlert: the threshold itself already alerts (>= for >).
ErrorRateAlertAtThreshold(m) ==
    IF m.records_processed > 0
    THEN IF m.errors_count * thresholds.max_error_rate.den >= thresholds.max_error_rate.num * m.records_processed
         THEN << Alert("error_rate", "critical", m) >>
         ELSE <<>>
    ELSE <<>>

\* error_rate = errors_count / records_processed; error_rate > 0.05.  For counters
\* below 10^15 the float quotient exceeds the float 0.05 exactly when the
\* fraction exceeds 5/100, which is compared here by cross-multiplying (the
\* divisor is positive).
ErrorRateAlert(m) ==
    IF m.records_processed > 0
    THEN IF m.errors_count * thresholds.max_error_rate.den > thresholds.max_error_rate.num * m.records_processed
         THEN << Alert("error_rate", "critical", m) >>
         ELSE <<>>
    ELSE <<>>

\* Mutant of MemoryAlert: a sample equal to the threshold already alerts (>= for >).
MemoryAlertAtThreshold(m) ==
    IF Truthy(m.memory_usage_mb) /\ Val(m.memory_usage_mb) >= thresholds.max_memory_usage_mb
    THEN << Alert("memory", "warning", m) >>
    ELSE <<>>

MemoryAlert(m) ==
    IF Truthy(m.memory_usage_mb) /\ Val(m.memory_usage_mb) > thresholds.max_memory_usage_mb
    THEN << Alert("memory", "warning", m) >>
    ELSE <<>>

CpuAlert(m) ==
    IF Truthy(m.cpu_usage_percent) /\ Val(m.cpu_usage_percent) > thresholds.max_cpu_usage_percent
    THEN << Alert("cpu", "warning", m) >>
    ELSE <<>>

\* Mutant of BuildAlerts: the critical alert is put first.
BuildAlertsCriticalFirst(m) ==
    ErrorRateAlert(m) \o DurationAlert(m) \o MemoryAlert(m) \o CpuAlert(m)

\* The list `alerts` that check_alerts builds: four `if`s in a row, each appending.
BuildAlerts(m) ==
    DurationAlert(m) \o ErrorRateAlert(m) \o MemoryAlert(m) \o CpuAlert(m)

\* send_alert: what one call can do.  Without a webhook the alert is only logged;
\* with one, requests.post either succeeds or raises, and the exception is caught.
SendOutcomes == IF webhook_url THEN {"delivered", "failed"} ELSE {"logged"}

\* The log events of one send_alert call.
SendLog(outcome) ==
    << LogEvent("warning", "Alert triggered") >> \o
    ( CASE outcome = "delivered" -> << LogEvent("info", "Alert sent successfully") >>
        [] outcome = "failed"    -> << LogEvent("error", "Failed to send alert") >>
        [] outcome = "logged"    -> <<>> )

RECURSIVE SendLogs(_)
SendLogs(outcomes) ==
    IF outcomes = <<>> THEN <<>>
    ELSE SendLog(Head(outcomes)) \o SendLogs(Tail(outcomes))

\* Mutant of Deliveries: the first failed delivery ends the loop.
DeliveriesStopAtFailure(as) ==
    { s \in UNION { [ 1..n -> SendOutcomes ] : n \in 0..Len(as) } :
        /\ \A i \in 1..(Len(s) - 1) : s[i] # "failed"
        /\ Len(s) < Len(as) => ( Len(s) > 0 /\ s[Len(s)] = "failed" ) }

\* `for alert in alerts: self.send_alert(run_id, alert)`: send_alert catches every
\* exception of the delivery, so the loop reaches every alert; each has an outcome.
Deliveries(as) == [ DOMAIN as -> SendOutcomes ]

\* Mutant of check_alerts: the evaluation refreshes the run's duration_seconds
\* ("has been running for ...") before it tests it.
check_alerts_refreshes_duration(r) ==
    LET metrics == DictGet(active_runs, r) IN
    /\ nops < MaxOps
    /\ IF metrics = None
       THEN /\ alerts' = <<>>
            /\ sent' = <<>>
            /\ UNCHANGED heap
       ELSE /\ heap' = [ heap EXCEPT ![Val(metrics)].duration_seconds =
                                        Some(now - heap[Val(metrics)].start_time) ]
            /\ alerts' = BuildAlerts(heap'[Val(metrics)])
            /\ sent' \in Deliveries(alerts')
    /\ logged' = SendLogs(sent')
    /\ ret' = None
    /\ op' = Call("check_alerts", r)
    /\ nops' = nops + 1
    /\ UNCHANGED <<active_runs, now, held, heldVal, webhook_url, thresholds, otherVars>>

check_alerts(r) ==
    LET metrics == DictGet(active_runs, r) IN
    /\ nops < MaxOps
    /\ IF metrics = None
       THEN /\ alerts' = <<>>
            /\ sent' = <<>>
       ELSE LET m == heap[Val(metrics)] IN
            /\ alerts' = BuildAlerts(m)
            /\ sent' \in Deliveries(alerts')
    /\ logged' = SendLogs(sent')
    /\ ret' = None
    /\ op' = Call("check_alerts", r)
    /\ nops' = nops + 1
    /\ UNCHANGED <<active_runs, heap, now, held, heldVal, webhook_url, thresholds, otherVars>>

\* The alert manager on its own: one run is live, its fields are any values the
\* monitor's calls can have given them, and check_alerts is called.
AlertRecords == {0, 1, 19, 20, 21, 1000}
AlertErrors == {0, 1, 2, 50, 51, 60}
AlertDurations == {None, Some(0), Some(3600), Some(3601), Some(3700)}
AlertMemory == {None, Some(4096), Some(4097)}
AlertCpu == {None, Some(90), Some(91)}

InitAlerts ==
    /\ \E rec \in AlertRecords, err \in AlertErrors, dur \in AlertDurations,
          mem \in AlertMemory, cpu \in AlertCpu :
          heap = << [ PipelineMetrics("p1", "r1", 0) EXCEPT
                        !.records_processed = rec,
                        !.errors_count = err,
                        !.duration_seconds = dur,
                        !.memory_usage_mb = mem,
                        !.cpu_usage_percent = cpu ] >>
    /\ active_runs = << [key |-> "r1", ref |-> 1] >>
    /\ now = 0
    /\ op = Call("init", "")
    /\ ret = None
    /\ logged = <<>>
    /\ held = <<>>
    /\ heldVal = <<>>
    /\ alerts = <<>>
    /\ sent = <<>>
    /\ webhook_url \in BOOLEAN
    /\ thresholds = Thresholds
    /\ nops = 0
    /\ orch = Idle
    /\ ingest = Idle
    /\ threads = Idle
    /\ quality = Idle
    /\ health = Idle

NextAlerts == \E r \in RunIds : check_alerts(r)

SpecAlerts == InitAlerts /\ [][NextAlerts]_vars

----------------------------------------------------------------------------

Next ==
    \/ Tick
    \/ \E p \in PipelineNames, r \in RunIds : start_pipeline_monitoring(p, r)
    \/ \E r \in RunIds, kw \in UpdateKwargs : update_pipeline_metrics(r, kw)
    \/ \E r \in RunIds, s \in FinalStatuses, kw \in FinalKwargs :
           complete_pipeline_monitoring(r, s, kw)
    \/ \E r \in RunIds : log_error(r)
    \/ \E r \in RunIds : log_warning(r)
    \/ get_active_runs
    \/ \E r \in RunIds : get_run_metrics(r)

Spec == Init /\ [][Next]_vars

\* The monitor with its alert manager: check_alerts is called between the
\* monitor's operations, with or without a webhook.
InitWithAlerts ==
    /\ active_runs = <<>>
    /\ heap = <<>>
    /\ now = 0
    /\ op = Call("init", "")
    /\ ret = None
    /\ logged = <<>>
    /\ held = <<>>
    /\ heldVal = <<>>
    /\ alerts = <<>>
    /\ sent = <<>>
    /\ webhook_url \in BOOLEAN
    /\ thresholds = Thresholds
    /\ nops = 0
    /\ orch = Idle
    /\ ingest = Idle
    /\ threads = Idle
    /\ quality = Idle
    /\ health = Idle

NextWithAlerts ==
    \/ Next
    \/ \E r \in RunIds : check_alerts(r)

SpecWithAlerts == InitWithAlerts /\ [][NextWithAlerts]_vars

\* The monitor and its alert manager under callers whose update calls never
\* name duration_seconds.
UpdateKwargsNoDuration == { kw \in UpdateKwargs : "duration_seconds" \notin DOMAIN kw }

NextNoDuration ==
    \/ Tick
    \/ \E p \in PipelineNames, r \in RunIds : start_pipeline_monitoring(p, r)
    \/ \E r \in RunIds, kw \in UpdateKwargsNoDuration : update_pipeline_metrics(r, kw)
    \/ \E r \in RunIds, s \in FinalStatuses, kw \in FinalKwargs :
           complete_pipeline_monitoring(r, s, kw)
    \/ \E r \in RunIds : log_error(r)
    \/ \E r \in RunIds : log_warning(r)
    \/ \E r \in RunIds : check_alerts(r)

SpecNoDuration == InitWithAlerts /\ [][NextNoDuration]_vars

----------------------------------------------------------------------------
(* PipelineMonitor called from several threads.  The monitor takes no lock, so
   a thread can be preempted between any two steps of a method: the membership
   test, the subscript active_runs[run_id], the read and the write of a
   counter's `+= 1`, each assignment of complete, and the pop. *)

Threads == {"t1", "t2", "t3", "t4"}
ThreadCalls == {"log_error", "log_warning", "update", "complete"}
\* The one run the threads work on, and the arguments they pass.
ThreadRun == "r1"
ThreadKwargs == "records_processed" :> 2
ThreadStatus == "completed"

\* A thread: the method it runs, its position in it, the object its local
\* `metrics` names (0: none yet), the counter value it has read, and whether it
\* has written to an object that was no longer in active_runs.
Thread(call) == [call |-> call, pc |-> "test", obj |-> 0, tmp |-> 0, stale |-> FALSE]

CounterOf(call) == IF call = "log_error" THEN "errors_count" ELSE "warnings_count"
Counts(call) == call \in {"log_error", "log_warning"}
\* Whether the object is the one active_runs holds for the run.
Listed(ref) == DictGet(active_runs, ThreadRun) = Some(ref)

monitorVars == <<now, op, ret, logged, held, heldVal, alerts, sent, webhook_url,
                 thresholds, nops, quality, health, orch, ingest>>

InitThreads ==
    /\ heap = << PipelineMetrics("p1", ThreadRun, 0) >>
    /\ active_runs = << [key |-> ThreadRun, ref |-> 1] >>
    /\ now = 1
    /\ op = Call("init", "")
    /\ ret = None
    /\ logged = <<>>
    /\ held = <<>>
    /\ heldVal = <<>>
    /\ alerts = <<>>
    /\ sent = <<>>
    /\ webhook_url = FALSE
    /\ thresholds = Thresholds
    /\ nops = 0
    /\ orch = Idle
    /\ ingest = Idle
    /\ threads \in { [ t \in Threads |-> Thread(f[t]) ] : f \in [ Threads -> ThreadCalls ] }
    /\ quality = Idle
    /\ health = Idle

\* `if run_id in self.active_runs` (log_error, log_warning) and
\* `if run_id not in self.active_runs: ... return` (update, complete)
TestLive(t) ==
    /\ threads[t].pc = "test"
    /\ threads' = [ threads EXCEPT ![t].pc =
                       IF ThreadRun \in DictKeys(active_runs) THEN "lookup" ELSE "done" ]
    /\ UNCHANGED <<active_runs, heap, monitorVars>>

\* `self.active_runs[run_id]`: raises KeyError when the entry is gone.
Lookup(t) ==
    LET found == DictGet(active_runs, ThreadRun)
        call == threads[t].call IN
    /\ threads[t].pc = "lookup"
    /\ threads' = IF found = None
                  THEN [ threads EXCEPT ![t].pc = "KeyError" ]
                  ELSE [ threads EXCEPT ![t].obj = Val(found),
                                        ![t].pc = CASE Counts(call) -> "read"
                                                    [] call = "update" -> "setattr"
                                                    [] call = "complete" -> "end_time" ]
    /\ UNCHANGED <<active_runs, heap, monitorVars>>

\* `x.errors_count += 1`, first half: the attribute is read.
ReadCounter(t) ==
    /\ threads[t].pc = "read"
    /\ threads' = [ threads EXCEPT ![t].tmp = heap[threads[t].obj][CounterOf(threads[t].call)],
                                   ![t].pc = "write" ]
    /\ UNCHANGED <<active_runs, heap, monitorVars>>

\* Mutant of WriteCounter: the value read is stored back as it was.
WriteCounterSame(t) ==
    /\ threads[t].pc = "write"
    /\ heap' = [ heap EXCEPT ![threads[t].obj][CounterOf(threads[t].call)] = threads[t].tmp ]
    /\ threads' = [ threads EXCEPT ![t].stale = @ \/ ~Listed(threads[t].obj),
                                   ![t].pc = "done" ]
    /\ UNCHANGED <<active_runs, monitorVars>>

\* `x.errors_count += 1`, second half: the value read, plus one, is stored.
WriteCounter(t) ==
    /\ threads[t].pc = "write"
    /\ heap' = [ heap EXCEPT ![threads[t].obj][CounterOf(threads[t].call)] = threads[t].tmp + 1 ]
    /\ threads' = [ threads EXCEPT ![t].stale = @ \/ ~Listed(threads[t].obj),
                                   ![t].pc = "done" ]
    /\ UNCHANGED <<active_runs, monitorVars>>

\* update's setattr loop, for the one keyword passed.
SetAttrStep(t) ==
    /\ threads[t].pc = "setattr"
    /\ heap' = [ heap EXCEPT ![threads[t].obj] = SetAttrs(@, ThreadKwargs) ]
    /\ threads' = [ threads EXCEPT ![t].stale = @ \/ ~Listed(threads[t].obj),
                                   ![t].pc = "done" ]
    /\ UNCHANGED <<active_runs, monitorVars>>

\* complete: metrics.end_time = datetime.utcnow()
SetEndTime(t) ==
    /\ threads[t].pc = "end_time"
    /\ heap' = [ heap EXCEPT ![threads[t].obj].end_time = Some(now) ]
    /\ threads' = [ threads EXCEPT ![t].stale = @ \/ ~Listed(threads[t].obj),
                                   ![t].pc = "status" ]
    /\ UNCHANGED <<active_runs, monitorVars>>

\* complete: metrics.status = status
SetStatus(t) ==
    /\ threads[t].pc = "status"
    /\ heap' = [ heap EXCEPT ![threads[t].obj].status = ThreadStatus ]
    /\ threads' = [ threads EXCEPT ![t].stale = @ \/ ~Listed(threads[t].obj),
                                   ![t].pc = "duration" ]
    /\ UNCHANGED <<active_runs, monitorVars>>

\* complete: metrics.duration_seconds = (metrics.end_time - metrics.start_time).total_seconds()
\* (final_metrics is empty, so the merge loop has no step)
SetDuration(t) ==
    LET m == heap[threads[t].obj] IN
    /\ threads[t].pc = "duration"
    /\ heap' = [ heap EXCEPT ![threads[t].obj].duration_seconds =
                                 Some(Val(m.end_time) - m.start_time) ]
    /\ threads' = [ threads EXCEPT ![t].stale = @ \/ ~Listed(threads[t].obj),
                                   ![t].pc = "pop" ]
    /\ UNCHANGED <<active_runs, monitorVars>>

\* complete: self.active_runs.pop(run_id), which raises KeyError when the entry is gone.
Pop(t) ==
    /\ threads[t].pc = "pop"
    /\ IF ThreadRun \in DictKeys(active_runs)
       THEN /\ active_runs' = DictPop(active_runs, ThreadRun)
            /\ threads' = [ threads EXCEPT ![t].pc = "done" ]
       ELSE /\ threads' = [ threads EXCEPT ![t].pc = "KeyError" ]
            /\ UNCHANGED active_runs
    /\ UNCHANGED <<heap, monitorVars>>

NextThreads ==
    \E t \in Threads :
        \/ TestLive(t)
        \/ Lookup(t)
        \/ ReadCounter(t)
        \/ WriteCounter(t)
        \/ SetAttrStep(t)
        \/ SetEndTime(t)
        \/ SetStatus(t)
        \/ SetDuration(t)
        \/ Pop(t)

SpecThreads == InitThreads /\ [][NextThreads]_vars

----------------------------------------------------------------------------
(* The data-quality report of one column, as test_generate_quality_report
   computes it with pandas, and the orchestrator's data-quality step. *)

MaxRows == 5

\* A cell is null (None) or holds a value.
Cells == {None} \cup { Some(v) : v \in {"POL001", "POL002", "POL004"} }
Columns == UNION { [ 1..n -> Cells ] : n \in 1..MaxRows }

\* Mutant of Count: every row counts, null or not.
CountWithNulls(col) == Len(col)

\* Series.count(): the number of non-null cells.
Count(col) == Len(SelectSeq(col, LAMBDA c : c # None))

\* The non-null values in order of first appearance.
RECURSIVE Unique(_, _)
Unique(col, seen) ==
    IF col = <<>> THEN seen
    ELSE LET c == Head(col) IN
         Unique(Tail(col),
                IF c = None \/ \E i \in DOMAIN seen : seen[i] = c
                THEN seen ELSE Append(seen, c))

\* Mutant of NUnique: a value counts again whenever it differs from the
\* non-null value before it (distinct runs, as on sorted data).
NUniqueRuns(col) ==
    LET nn == SelectSeq(col, LAMBDA c : c # None) IN
    Cardinality({ i \in DOMAIN nn : i = 1 \/ nn[i] # nn[i - 1] })

\* Series.nunique(): the number of distinct non-null values.
NUnique(col) == Len(Unique(col, <<>>))

\* The quotient n / d, kept as the pair; Python's `else 0` is 0 / 1.
Ratio(n, d) == [num |-> n, den |-> d]

\* non_null_count / len(data)
Completeness(col) == Ratio(Count(col), Len(col))

\* unique_count / non_null_count if non_null_count > 0 else 0
Uniqueness(col) ==
    IF Count(col) > 0 THEN Ratio(NUnique(col), Count(col)) ELSE Ratio(0, 1)

\* The configured completeness threshold, 0.95, as the fraction 95 / 100.
completeness_threshold_num == 95
completeness_threshold_den == 100

\* The Quality Gate's verdict policy for a batch whose one column is required
\* and is the unique key: fail if a mandatory rule has violations, or the
\* completeness is below the threshold, or the uniqueness is below 1.
Verdict(q) ==
    LET c == Completeness(q.column)
        u == Uniqueness(q.column) IN
    IF \/ q.violations > 0
       \/ c.num * completeness_threshold_den < completeness_threshold_num * c.den
       \/ u.num < u.den
    THEN "fail" ELSE "pass"

InitQuality ==
    /\ quality \in [ column : Columns, violations : {0, 1},
                      report : {None}, step : {None} ]
    /\ active_runs = <<>>
    /\ heap = <<>>
    /\ now = 0
    /\ op = Call("init", "")
    /\ ret = None
    /\ logged = <<>>
    /\ held = <<>>
    /\ heldVal = <<>>
    /\ alerts = <<>>
    /\ sent = <<>>
    /\ webhook_url = FALSE
    /\ thresholds = Thresholds
    /\ nops = 0
    /\ orch = Idle
    /\ ingest = Idle
    /\ threads = Idle
    /\ health = Idle

\* The loop body of test_generate_quality_report, for the one column.
generate_quality_report ==
    /\ quality.report = None
    /\ quality' = [ quality EXCEPT !.report =
                       Some([ total_records |-> Len(quality.column),
                              completeness  |-> Completeness(quality.column),
                              uniqueness    |-> Uniqueness(quality.column) ]) ]
    /\ UNCHANGED <<active_runs, heap, now, op, ret, logged, held, heldVal, alerts, sent,
                   webhook_url, thresholds, nops, threads, health, orch, ingest>>

\* ETLOrchestrator.run_data_quality_checks: a placeholder that logs two lines
\* and returns True; it reads no data (False only if the logging itself raises).
run_data_quality_checks ==
    /\ quality.step = None
    /\ quality' = [ quality EXCEPT !.step = Some(TRUE) ]
    /\ UNCHANGED <<active_runs, heap, now, op, ret, logged, held, heldVal, alerts, sent,
                   webhook_url, thresholds, nops, threads, health, orch, ingest>>

NextQuality ==
    \/ generate_quality_report
    \/ run_data_quality_checks

SpecQuality == InitQuality /\ [][NextQuality]_vars

----------------------------------------------------------------------------
(* HealthChecker.generate_report *)

MaxResults == 5

\* The names of the five checks, in the order run_all_checks calls them.
CheckNames ==
    << "check_azure_storage", "check_key_vault", "check_databricks",
       "check_container_registry", "check_data_freshness" >>
\* The status strings the checks use, and one that none of them uses.
HealthStatuses == {"healthy", "degraded", "unhealthy"}
OtherStatus == "unknown"

\* The fields of a HealthCheckResult that generate_report's summary reads.
HealthCheckResult(service, status) == [service |-> service, status |-> status]

\* The lists of results generate_report can be given.
ResultLists ==
    UNION { { [ i \in 1..n |-> HealthCheckResult(CheckNames[((i - 1) % Len(CheckNames)) + 1], st[i]) ] :
                st \in [ 1..n -> HealthStatuses \cup {OtherStatus} ] } : n \in 0..MaxResults }

AnyStatus(results, status) == \E i \in DOMAIN results : results[i].status = status

\* Mutant of OverallStatus: degraded is tested before unhealthy.
OverallStatusDegradedFirst(results) ==
    IF AnyStatus(results, "degraded") THEN "degraded"
    ELSE IF AnyStatus(results, "unhealthy") THEN "unhealthy"
    ELSE "healthy"

\* overall_status = "healthy"; if any unhealthy: "unhealthy"; elif any degraded: "degraded"
OverallStatus(results) ==
    IF AnyStatus(results, "unhealthy") THEN "unhealthy"
    ELSE IF AnyStatus(results, "degraded") THEN "degraded"
    ELSE "healthy"

\* len([r for r in results if r.status == status])
CountStatus(results, status) == Len(SelectSeq(results, LAMBDA r : r.status = status))

InitHealth ==
    /\ health \in [ results : ResultLists, report : {None}, pc : {"report"},
                    met : {<<>>}, args : {[output |-> "text", output_file |-> None]},
                    output : {None}, exit : {None} ]
    /\ active_runs = <<>>
    /\ heap = <<>>
    /\ now = 0
    /\ op = Call("init", "")
    /\ ret = None
    /\ logged = <<>>
    /\ held = <<>>
    /\ heldVal = <<>>
    /\ alerts = <<>>
    /\ sent = <<>>
    /\ webhook_url = FALSE
    /\ thresholds = Thresholds
    /\ nops = 0
    /\ orch = Idle
    /\ ingest = Idle
    /\ threads = Idle
    /\ quality = Idle

generate_report ==
    LET results == health.results IN
    /\ health.pc = "report"
    /\ health.report = None
    /\ health' = [ health EXCEPT !.report =
                      Some([ overall_status   |-> OverallStatus(results),
                             total_checks     |-> Len(results),
                             healthy_checks   |-> CountStatus(results, "healthy"),
                             degraded_checks  |-> CountStatus(results, "degraded"),
                             unhealthy_checks |-> CountStatus(results, "unhealthy"),
                             checks           |-> results ]),
                                  !.pc = "output" ]
    /\ UNCHANGED <<active_runs, heap, now, op, ret, logged, held, heldVal, alerts, sent,
                   webhook_url, thresholds, nops, threads, quality, orch, ingest>>

NextHealth == generate_report

SpecHealth == InitHealth /\ [][NextHealth]_vars

(* ---- health_check.py: main ------------------------------------------- *)

\* The service names the five checks put in their results, in the order
\* run_all_checks calls them.
ServiceNames ==
    << "azure_storage", "key_vault", "databricks", "container_registry", "data_freshness" >>

\* What each check can meet.  "exception" is an exception inside the check's
\* try block, which its own handler turns into an unhealthy result;
\* "unhealthy" is an unhealthy result returned without an exception (host or
\* registry not reachable); only the freshness check returns "degraded".
CheckOutcomes ==
    << {"healthy", "exception"},
       {"healthy", "exception"},
       {"healthy", "unhealthy", "exception"},
       {"healthy", "unhealthy", "exception"},
       {"healthy", "degraded", "exception"} >>

Met == { m \in [ 1..Len(ServiceNames) -> {"healthy", "degraded", "unhealthy", "exception"} ] :
           \A i \in 1..Len(ServiceNames) : m[i] \in CheckOutcomes[i] }

CheckStatus(outcome) == IF outcome = "exception" THEN "unhealthy" ELSE outcome

RECURSIVE RunChecksFrom(_, _)
RunChecksFrom(met, i) ==
    IF i > Len(ServiceNames) THEN << >>
    ELSE << HealthCheckResult(ServiceNames[i], CheckStatus(met[i])) >>
           \o RunChecksFrom(met, i + 1)

RunChecksUntilFailure(met) ==
    LET all == RunChecksFrom(met, 1)
        bad == { i \in 1..Len(all) : all[i].status = "unhealthy" }
    IN  IF bad = {} THEN all
        ELSE SubSeq(all, 1, CHOOSE i \in bad : \A j \in bad : i <= j)

RunChecks(met) == RunChecksFrom(met, 1)

OutputFormats == {"json", "text"}

OutputFiles == {None, Some("report.txt")}

InitHealthMain ==
    /\ health \in [ results : {<<>>}, report : {None}, pc : {"checks"}, met : {<<>>},
                    args : [ output : OutputFormats, output_file : OutputFiles ],
                    output : {None}, exit : {None} ]
    /\ active_runs = <<>>
    /\ heap = <<>>
    /\ now = 0
    /\ op = Call("init", "")
    /\ ret = None
    /\ logged = <<>>
    /\ held = None
    /\ heldVal = None
    /\ alerts = <<>>
    /\ sent = <<>>
    /\ webhook_url = FALSE
    /\ thresholds = Thresholds
    /\ nops = 0
    /\ threads = Idle
    /\ quality = Idle
    /\ orch = Idle
    /\ ingest = Idle

healthFrame ==
    <<active_runs, heap, now, op, ret, logged, held, heldVal, alerts, sent,
      webhook_url, thresholds, nops, threads, quality, orch, ingest>>

run_all_checks(met) ==
    /\ health.pc = "checks"
    /\ health' = [ health EXCEPT !.results = RunChecks(met), !.met = met, !.pc = "report" ]
    /\ UNCHANGED healthFrame

\* main, lines 492-522: the report is rendered in the chosen format and
\* written to the output file when one is given, printed otherwise.  open()
\* and write() are outside any handler: when they raise, the exception leaves
\* main and the interpreter ends the process with status 1.
write_output(written) ==
    LET args == health.args IN
    /\ health.pc = "output"
    /\ IF args.output_file # None /\ ~written
         THEN health' = [ health EXCEPT !.pc = "raised", !.exit = Some(1) ]
         ELSE health' = [ health EXCEPT
                            !.output = Some([ format |-> args.output,
                                              to     |-> IF args.output_file # None
                                                           THEN "file" ELSE "stdout" ]),
                            !.pc = "exit" ]
    /\ UNCHANGED healthFrame

HealthExitCode(overall_status) ==
    IF overall_status = "unhealthy" THEN 1
    ELSE IF overall_status = "degraded" THEN 2
    ELSE 0

health_main_exit ==
    /\ health.pc = "exit"
    /\ health' = [ health EXCEPT !.exit = Some(HealthExitCode(Val(health.report).overall_status)),
                                 !.pc = "exited" ]
    /\ UNCHANGED healthFrame

NextHealthMain ==
    \/ \E met \in Met : run_all_checks(met)
    \/ generate_report
    \/ \E written \in BOOLEAN : write_output(written)
    \/ health_main_exit

SpecHealthMain == InitHealthMain /\ [][NextHealthMain]_vars

----------------------------------------------------------------------------
(* ETLOrchestrator: run_pipeline, its three steps, and main.  Every step runs
   its work inside try / except Exception and returns a bool, so what a
   subprocess does (exit code, timeout, failure to start) decides the result;
   the logging and print calls are taken to return normally. *)

\* What a subprocess.run call can do: return with exit code 0 or another one,
\* raise TimeoutExpired (when a timeout is given), or raise another exception.
ExitCodes == {"exit0", "exit1"}
ProcOutcomes == ExitCodes \cup {"timeout", "error"}
\* `dbt deps` is run without a timeout.
DepsOutcomes == ExitCodes \cup {"error"}
\* The time a step takes.
Elapse == {0, 1}

ProcCall(cmd, outcome) == [cmd |-> cmd, outcome |-> outcome]
StepResult(step, ok) == [step |-> step, ok |-> ok]

\* results[step] = ok
Record(o, step, ok) == [ o EXCEPT !.results = Append(@, StepResult(step, ok)) ]

\* Mutant of Stop: the report is generated before the early return.
StopWithReport(o) ==
    [ o EXCEPT !.pc = "returned", !.ret = Some(FALSE), !.reports = @ + 1 ]

\* logger.error("Pipeline stopped due to ..."); return False
Stop(o) == [ o EXCEPT !.pc = "returned", !.ret = Some(FALSE) ]

\* Mutant of Continue: a failed step does not stop the pipeline.
ContinueAlways(o, ok, next) == [ o EXCEPT !.pc = next ]

\* `if not results[step]: ... return False`, else on to the next step
Continue(o, ok, next) == IF ok THEN [ o EXCEPT !.pc = next ] ELSE Stop(o)

InitOrchestrator ==
    /\ orch = [ pc |-> "ingestion", results |-> <<>>, procs |-> <<>>, reports |-> 0,
                duration |-> None, ret |-> None, exit |-> None, pipeline_start_time |-> 0 ]
    /\ active_runs = <<>>
    /\ heap = <<>>
    /\ now = 0
    /\ op = Call("init", "")
    /\ ret = None
    /\ logged = <<>>
    /\ held = <<>>
    /\ heldVal = <<>>
    /\ alerts = <<>>
    /\ sent = <<>>
    /\ webhook_url = FALSE
    /\ thresholds = Thresholds
    /\ nops = 0
    /\ threads = Idle
    /\ quality = Idle
    /\ health = Idle
    /\ ingest = Idle

orchFrame == <<active_runs, heap, op, ret, logged, held, heldVal, alerts, sent,
               webhook_url, thresholds, nops, threads, quality, health, ingest>>

\* run_ingestion: ingestion.py is run as a subprocess, True iff it exits with 0.
run_ingestion(outcome, d) ==
    LET ok == outcome = "exit0"
        called == [ orch EXCEPT !.procs = Append(@, ProcCall("ingestion.py", outcome)) ] IN
    /\ orch.pc = "ingestion"
    /\ orch' = Continue(Record(called, "ingestion", ok), ok, "transformations")
    /\ now' = now + d
    /\ UNCHANGED orchFrame

\* The subprocess calls run_dbt_transformations makes: dbt deps; then dbt run,
\* unless starting dbt deps raised; then dbt test, if dbt run exited with 0.
DbtCalls(deps, run, test) ==
    << ProcCall("dbt deps", deps) >> \o
    ( IF deps \in ExitCodes
      THEN << ProcCall("dbt run", run) >> \o
           ( IF run = "exit0" THEN << ProcCall("dbt test", test) >> ELSE <<>> )
      ELSE <<>> )

\* Mutant of DbtOk: failed dbt tests fail the step.
DbtOkTestsMustPass(deps, run, test) ==
    deps \in ExitCodes /\ run = "exit0" /\ test = "exit0"

\* What run_dbt_transformations returns: True after dbt run exited with 0 and
\* dbt test returned (with any exit code); False when dbt run exited with
\* another code, and when any of the three calls raised (the except clauses).
DbtOk(deps, run, test) ==
    deps \in ExitCodes /\ run = "exit0" /\ test \in ExitCodes

run_dbt_transformations(deps, run, test, d) ==
    LET ok == DbtOk(deps, run, test)
        called == [ orch EXCEPT !.procs = @ \o DbtCalls(deps, run, test) ] IN
    /\ orch.pc = "transformations"
    /\ orch' = Continue(Record(called, "transformations", ok), ok, "data_quality")
    /\ now' = now + d
    /\ UNCHANGED orchFrame

\* What run_data_quality_checks returns: True (the placeholder).
DataQualityOk == TRUE

\* Step 3 of run_pipeline: results['data_quality'] = self.run_data_quality_checks()
pipeline_data_quality ==
    /\ orch.pc = "data_quality"
    /\ orch' = [ Record(orch, "data_quality", DataQualityOk) EXCEPT !.pc = "report" ]
    /\ UNCHANGED <<now, orchFrame>>

\* generate_pipeline_report, called from run_pipeline after step 3: the report
\* is printed, with the duration since pipeline_start_time.
generate_pipeline_report ==
    /\ orch.pc = "report"
    /\ orch' = [ orch EXCEPT !.reports = @ + 1,
                             !.duration = Some(now - orch.pipeline_start_time),
                             !.pc = "finish" ]
    /\ UNCHANGED <<now, orchFrame>>

\* all(results.values())
AllResults(results) == \A i \in DOMAIN results : results[i].ok

\* pipeline_success = all(results.values()); ...; return pipeline_success
return_pipeline_success ==
    /\ orch.pc = "finish"
    /\ orch' = [ orch EXCEPT !.ret = Some(AllResults(orch.results)), !.pc = "returned" ]
    /\ UNCHANGED <<now, orchFrame>>

\* Mutant of ExitCode: the process exits with 0 whatever run_pipeline returned.
ExitCodeZero(success) == 0

\* main: sys.exit(0) if success else sys.exit(1)
ExitCode(success) == IF success THEN 0 ELSE 1

orchestrator_main_exit ==
    /\ orch.pc = "returned"
    /\ orch' = [ orch EXCEPT !.exit = Some(ExitCode(Val(orch.ret))), !.pc = "exited" ]
    /\ UNCHANGED <<now, orchFrame>>

NextOrchestrator ==
    \/ \E outcome \in ProcOutcomes, d \in Elapse : run_ingestion(outcome, d)
    \/ \E deps \in DepsOutcomes, run \in ProcOutcomes, test \in ProcOutcomes, d \in Elapse :
           run_dbt_transformations(deps, run, test, d)
    \/ pipeline_data_quality
    \/ generate_pipeline_report
    \/ return_pipeline_success
    \/ orchestrator_main_exit

SpecOrchestrator == InitOrchestrator /\ [][NextOrchestrator]_vars

----------------------------------------------------------------------------
(* DataIngestion: the two ingest calls, run_ingestion_pipeline and main.  A
   batch is the CSV file read; a row is its key (claim_id or policy_id) and its
   position in the file, which stands for the rest of the row. *)

MaxBatch == 3

Keys == {"k1", "k2"}
Batches == UNION { [ 1..n -> Keys ] : n \in 0..MaxBatch }
Sources == {"claims", "policies"}
Row(key, row) == [key |-> key, row |-> row]
\* What the target table holds before the run: one row, ingested earlier.
OldTable == << Row("k1", 0) >>

\* Mutant of Dedupes: no row is dropped.
DedupesNothing(batch) == { DOMAIN batch }

\* dropDuplicates([key]): one row is kept for each key of the batch; Spark does
\* not say which of the rows with the same key.
Dedupes(batch) ==
    { keep \in SUBSET DOMAIN batch :
        \A i \in DOMAIN batch : Cardinality({ j \in keep : batch[j] = batch[i] }) = 1 }

\* The rows of the batch at the kept positions, in file order.
Rows(batch, keep) ==
    LET all == [ i \in DOMAIN batch |-> Row(batch[i], i) ] IN
    SelectSeq(all, LAMBDA r : r.row \in keep)

\* What an ingest call can meet: nothing, a failure of the read (no count is
\* taken), or a failure of the write (after the counts and the warning).
IngestOutcomes == {"ok", "read_fails", "write_fails"}

\* One ingest_*_data call on the batch of `source`: the record of the call
\* (counts, warning, return value) and the table after it.  The write is one
\* Delta transaction in append mode: all kept rows are added or none.
IngestData(o, source, outcome, keep) ==
    LET batch == o.source[source]
        call == [ source  |-> source,
                  initial |-> IF outcome = "read_fails" THEN None ELSE Some(Len(batch)),
                  final   |-> IF outcome = "read_fails" THEN None ELSE Some(Cardinality(keep)),
                  warned  |-> outcome # "read_fails" /\ Len(batch) # Cardinality(keep),
                  ok      |-> outcome = "ok" ] IN
    [ o EXCEPT !.calls = Append(@, call),
               !.tables[source] = IF outcome = "ok" THEN @ \o Rows(batch, keep) ELSE @,
               !.results = Append(@, [source |-> source, ok |-> outcome = "ok"]) ]

InitIngestion ==
    /\ ingest \in [ pc : {"init"}, source : [ Sources -> Batches ],
                     tables : { [ t \in Sources |-> OldTable ] },
                     calls : {<<>>}, results : {<<>>}, spark : {"none"}, exit : {None} ]
    /\ active_runs = <<>>
    /\ heap = <<>>
    /\ now = 0
    /\ op = Call("init", "")
    /\ ret = None
    /\ logged = <<>>
    /\ held = <<>>
    /\ heldVal = <<>>
    /\ alerts = <<>>
    /\ sent = <<>>
    /\ webhook_url = FALSE
    /\ thresholds = Thresholds
    /\ nops = 0
    /\ threads = Idle
    /\ quality = Idle
    /\ health = Idle
    /\ orch = Idle

ingestFrame == <<active_runs, heap, now, op, ret, logged, held, heldVal, alerts, sent,
                 webhook_url, thresholds, nops, threads, quality, health, orch>>

\* main: DataIngestion(config).  _initialize_spark and _initialize_blob_client
\* log and re-raise; main's except then exits with 1.
ingestion_main_init(outcome) ==
    /\ ingest.pc = "init"
    /\ ingest' = CASE outcome = "ok" ->
                       [ ingest EXCEPT !.spark = "running", !.pc = "claims" ]
                  [] outcome = "spark_fails" ->
                       [ ingest EXCEPT !.exit = Some(1), !.pc = "exited" ]
                  [] outcome = "blob_fails" ->
                       [ ingest EXCEPT !.spark = "running", !.exit = Some(1), !.pc = "exited" ]
    /\ UNCHANGED ingestFrame

ingest_claims_data(outcome, keep) ==
    /\ ingest.pc = "claims"
    /\ keep \in Dedupes(ingest.source["claims"])
    /\ ingest' = [ IngestData(ingest, "claims", outcome, keep) EXCEPT !.pc = "policies" ]
    /\ UNCHANGED ingestFrame

ingest_policies_data(outcome, keep) ==
    /\ ingest.pc = "policies"
    /\ keep \in Dedupes(ingest.source["policies"])
    /\ ingest' = [ IngestData(ingest, "policies", outcome, keep) EXCEPT !.pc = "stop" ]
    /\ UNCHANGED ingestFrame

\* run_ingestion_pipeline's finally: self.spark.stop(), then `return results`;
\* if stop() raises, the exception leaves run_ingestion_pipeline and main's
\* except exits with 1.
stop_spark(stops) ==
    /\ ingest.pc = "stop"
    /\ ingest' = IF stops
                 THEN [ ingest EXCEPT !.spark = "stopped", !.pc = "returned" ]
                 ELSE [ ingest EXCEPT !.exit = Some(1), !.pc = "exited" ]
    /\ UNCHANGED ingestFrame

\* Mutant of IngestionExitCode: one successful ingestion is enough.
IngestionExitCodeAny(results) ==
    IF \E i \in DOMAIN results : results[i].ok THEN 0 ELSE 1

\* main: sys.exit(0) if all(results.values()) else sys.exit(1)
IngestionExitCode(results) ==
    IF \A i \in DOMAIN results : results[i].ok THEN 0 ELSE 1

ingestion_main_exit ==
    /\ ingest.pc = "returned"
    /\ ingest' = [ ingest EXCEPT !.exit = Some(IngestionExitCode(ingest.results)),
                                 !.pc = "exited" ]
    /\ UNCHANGED ingestFrame

NextIngestion ==
    \/ \E outcome \in {"ok", "spark_fails", "blob_fails"} : ingestion_main_init(outcome)
    \/ \E outcome \in IngestOutcomes, keep \in SUBSET (1..MaxBatch) :
           ingest_claims_data(outcome, keep)
    \/ \E outcome \in IngestOutcomes, keep \in SUBSET (1..MaxBatch) :
           ingest_policies_data(outcome, keep)
    \/ \E stops \in BOOLEAN : stop_spark(stops)
    \/ ingestion_main_exit

SpecIngestion == InitIngestion /\ [][NextIngestion]_vars

----------------------------------------------------------------------------
(* Properties *)

Live(r) == r \in DictKeys(active_runs)
\* The reference and the object active_runs holds for a live run id.
Ref(r) == Val(DictGet(active_runs, r))
Metrics(r) == heap[Ref(r)]
\* A step that is the call `name`.
Called(name) == op'.name = name /\ nops' = nops + 1 /\ now' = now

\* C1: after start(p, r) the run that get(r) returns has status running; after
\* complete(r, final_status) get(r) returns not-found.  get_run_metrics returns
\* active_runs.get(r).  The claim's complete passes no final fields, so it
\* returns; a complete that raised is the case of C3.
C1_Lifecycle ==
    /\ op.name = "start" =>
           /\ DictGet(active_runs, op.run_id) # None
           /\ Metrics(op.run_id).status = "running"
    /\ ( op.name = "complete" /\ op.raised = None ) =>
           DictGet(active_runs, op.run_id) = None
    /\ op.name = "get_run_metrics" => ret = DictGet(active_runs, op.run_id)

\* complete has just finalized and returned a run that was live.
C1_Witness ==
    /\ op.name = "complete"
    /\ ret # None
    /\ heap[Val(ret)].run_id = op.run_id
    /\ DictGet(active_runs, op.run_id) = None

\* C2: update and complete on a run id that is not in the live table return
\* nothing, create no entry and leave the table and every run unchanged; all
\* they do is log one warning.
C2_UnknownRunNoOp ==
    [][ ( /\ Called("update") \/ Called("complete")
          /\ ~Live(op'.run_id) )
        => /\ ret' = None
           /\ active_runs' = active_runs
           /\ heap' = heap
           /\ Len(logged') = 1 /\ logged'[1].level = "warning" ]_vars

\* A second complete on a run id that an earlier complete removed.
C2_Witness ==
    /\ op.name = "complete"
    /\ ret = None
    /\ ~Live(op.run_id)
    /\ logged = << LogEvent("warning", "Attempted to complete monitoring for unknown run_id") >>
    /\ \E i \in DOMAIN heap :
          /\ heap[i].run_id = op.run_id
          /\ heap[i].status = "completed"
          /\ heap[i].duration_seconds # None

\* C3: whatever final_fields names, complete on a live run returns a snapshot
\* that has its end timestamp set, status = final_status and duration = end -
\* start (read in the claim's favour: the start the run had when complete was
\* called), the final fields merged in, and the run is out of the live table.
C3_AsStated ==
    [][ ( Called("complete") /\ Live(op'.run_id) )
        => \A s \in FinalStatuses, kw \in FinalKwargs :
              complete_pipeline_monitoring(op'.run_id, s, kw) =>
                  /\ ret' # None
                  /\ ~(op'.run_id \in DictKeys(active_runs'))
                  /\ LET m0 == Metrics(op'.run_id)
                         m  == heap'[Val(ret')]
                     IN
                     /\ m.status = s
                     /\ \A k \in DOMAIN kw \cap (FieldNames \ {"start_time"}) : m[k] = kw[k]
                     /\ m.end_time # None
                     /\ m.duration_seconds = Some(Val(m.end_time) - m0.start_time) ]_vars

\* C4: records_processed of a live run never decreases from one state to the
\* next, whatever call is made on it.
C4_RecordsMonotone ==
    [][ \A r \in RunIds :
           Live(r) => heap'[Ref(r)].records_processed >= heap[Ref(r)].records_processed ]_vars

\* C5: every run held in the live table has status running.
C5_LiveRunsAreRunning ==
    \A r \in RunIds : Live(r) => Metrics(r).status = "running"

\* C6: start(p2, r) on a run id that is already live leaves exactly one entry
\* for r, a new run with pipeline name p2, status running, start time now and
\* all counters 0; the entries and runs of the other ids are unchanged.
C6_StartOverwrites ==
    [][ ( Called("start") /\ Live(op'.run_id) )
        => LET r == op'.run_id
               m == heap'[Val(DictGet(active_runs', r))]
           IN
           /\ Cardinality({ i \in DOMAIN active_runs' : active_runs'[i].key = r }) = 1
           /\ DictKeys(active_runs') = DictKeys(active_runs)
           /\ \A p \in PipelineNames :
                 start_pipeline_monitoring(p, r) => m.pipeline_name = p
           /\ m.run_id = r
           /\ m.status = "running"
           /\ m.start_time = now
           /\ m.end_time = None
           /\ m.records_processed = 0
           /\ m.errors_count = 0
           /\ m.warnings_count = 0
           /\ \A r2 \in RunIds \ {r} :
                 /\ DictGet(active_runs', r2) = DictGet(active_runs, r2)
                 /\ Live(r2) => heap'[Ref(r2)] = heap[Ref(r2)] ]_vars

\* start was called on a live run id that had counted an error under another
\* pipeline name: the table now holds the new run.
C6_Witness ==
    /\ op.name = "start"
    /\ ret # None
    /\ Ref(op.run_id) = Val(ret)
    /\ \E i \in DOMAIN heap :
          /\ i < Val(ret)
          /\ heap[i].run_id = op.run_id
          /\ heap[i].status = "running"
          /\ heap[i].end_time = None
          /\ heap[i].errors_count = 1
          /\ heap[i].pipeline_name # Metrics(op.run_id).pipeline_name
    /\ Metrics(op.run_id).errors_count = 0

\* C7: log_error adds exactly 1 to errors_count of a live run and log_warning
\* exactly 1 to warnings_count, and neither changes anything else; on a run id
\* that is not live neither changes the table or any run.
C7_LogCounters ==
    [][ /\ Called("log_error") =>
              /\ active_runs' = active_runs
              /\ IF Live(op'.run_id)
                 THEN heap' = [ heap EXCEPT ![Ref(op'.run_id)].errors_count = @ + 1 ]
                 ELSE heap' = heap
        /\ Called("log_warning") =>
              /\ active_runs' = active_runs
              /\ IF Live(op'.run_id)
                 THEN heap' = [ heap EXCEPT ![Ref(op'.run_id)].warnings_count = @ + 1 ]
                 ELSE heap' = heap ]_vars

\* log_warning was called on a live run after a log_error on it.
C7_Witness ==
    /\ op.name = "log_warning"
    /\ Live(op.run_id)
    /\ Metrics(op.run_id).warnings_count = 1
    /\ Metrics(op.run_id).errors_count = 1

\* C8: what get and list_active returned keeps the field values it had when it
\* was returned.
C8_SnapshotsAreCopies ==
    \A i \in DOMAIN held : heap[held[i]] = heldVal[i]

ErrorRateAlerts == SelectSeq(alerts, LAMBDA a : a.type = "error_rate")

\* C10: check_alerts emits an error_rate alert, of severity critical and only
\* one, exactly when the run has records_processed > 0 and errors_count /
\* records_processed > max_error_rate; with records_processed = 0 it emits none.
C10_ErrorRateAlert ==
    ( op.name = "check_alerts" /\ Live(op.run_id) ) =>
        LET m == Metrics(op.run_id) IN
        /\ Len(ErrorRateAlerts) <= 1
        /\ \A i \in DOMAIN ErrorRateAlerts : ErrorRateAlerts[i].severity = "critical"
        /\ Len(ErrorRateAlerts) = 1 <=>
              ( /\ m.records_processed > 0
                /\ m.errors_count * max_error_rate_den > max_error_rate_num * m.records_processed )
        /\ m.records_processed = 0 => Len(ErrorRateAlerts) = 0
        /\ Len(sent) = Len(alerts)

\* records_processed = 1000 and errors_count = 60: one critical error_rate alert.
C10_Witness ==
    /\ op.name = "check_alerts"
    /\ Live(op.run_id)
    /\ Metrics(op.run_id).records_processed = 1000
    /\ Metrics(op.run_id).errors_count = 60
    /\ Len(ErrorRateAlerts) = 1
    /\ ErrorRateAlerts[1].severity = "critical"

AlertsOfType(type) == SelectSeq(alerts, LAMBDA a : a.type = type)

\* C11: check_alerts emits a duration alert, of severity warning and only one,
\* exactly when the run's duration_seconds is known and greater than
\* max_duration_minutes * 60; it emits none when the duration is unknown or at
\* most the limit.
C11_DurationAlert ==
    ( op.name = "check_alerts" /\ Live(op.run_id) ) =>
        LET m == Metrics(op.run_id)
            d == AlertsOfType("duration") IN
        /\ Len(d) <= 1
        /\ \A i \in DOMAIN d : d[i].severity = "warning"
        /\ Len(d) = 1 <=>
              ( /\ m.duration_seconds # None
                /\ Val(m.duration_seconds) > max_duration_minutes * 60 )

\* duration_seconds = 3700 with max_duration_minutes = 60: one warning duration alert.
C11_Witness ==
    /\ op.name = "check_alerts"
    /\ Live(op.run_id)
    /\ Metrics(op.run_id).duration_seconds = Some(3700)
    /\ thresholds.max_duration_minutes = 60
    /\ Len(AlertsOfType("duration")) = 1
    /\ AlertsOfType("duration")[1].severity = "warning"

\* C12: check_alerts emits a memory alert (warning) exactly when a memory sample
\* is present and strictly greater than max_memory_usage_mb, and a cpu alert
\* (warning) exactly when a CPU sample is present and strictly greater than
\* max_cpu_usage_percent; a sample at the threshold, or none, gives no alert.
C12_MemoryCpuAlerts ==
    ( op.name = "check_alerts" /\ Live(op.run_id) ) =>
        LET m == Metrics(op.run_id)
            mem == AlertsOfType("memory")
            cpu == AlertsOfType("cpu") IN
        /\ Len(mem) <= 1 /\ Len(cpu) <= 1
        /\ \A i \in DOMAIN mem : mem[i].severity = "warning"
        /\ \A i \in DOMAIN cpu : cpu[i].severity = "warning"
        /\ Len(mem) = 1 <=>
              ( m.memory_usage_mb # None /\ Val(m.memory_usage_mb) > max_memory_usage_mb )
        /\ Len(cpu) = 1 <=>
              ( m.cpu_usage_percent # None /\ Val(m.cpu_usage_percent) > max_cpu_usage_percent )

\* Memory at the threshold gives no alert while the CPU above its threshold gives one.
C12_Witness ==
    /\ op.name = "check_alerts"
    /\ Live(op.run_id)
    /\ Metrics(op.run_id).memory_usage_mb = Some(max_memory_usage_mb)
    /\ Metrics(op.run_id).cpu_usage_percent = Some(max_cpu_usage_percent + 1)
    /\ Len(AlertsOfType("memory")) = 0
    /\ Len(AlertsOfType("cpu")) = 1

\* The four conditions of check_alerts, each on its own.
Breached(m, type) ==
    CASE type = "duration" ->
           m.duration_seconds # None /\ Val(m.duration_seconds) > max_duration_minutes * 60
      [] type = "error_rate" ->
           /\ m.records_processed > 0
           /\ m.errors_count * max_error_rate_den > max_error_rate_num * m.records_processed
      [] type = "memory" ->
           m.memory_usage_mb # None /\ Val(m.memory_usage_mb) > max_memory_usage_mb
      [] type = "cpu" ->
           m.cpu_usage_percent # None /\ Val(m.cpu_usage_percent) > max_cpu_usage_percent

AlertOrder == << "duration", "error_rate", "memory", "cpu" >>

\* C13: one check_alerts call emits exactly one alert per breached condition,
\* whatever the other conditions are (at most four, never two of one type), in
\* the order duration, error_rate, memory, cpu, and dispatches them in that order
\* (one delivery per alert, in list order).
C13_IndependentOrdered ==
    ( op.name = "check_alerts" /\ Live(op.run_id) ) =>
        LET m == Metrics(op.run_id) IN
        /\ [ i \in DOMAIN alerts |-> alerts[i].type ]
              = SelectSeq(AlertOrder, LAMBDA type : Breached(m, type))
        /\ Len(alerts) <= 4
        /\ \A i, j \in DOMAIN alerts : alerts[i].type = alerts[j].type => i = j
        /\ DOMAIN sent = DOMAIN alerts

\* All four thresholds breached at once: four alerts, in the fixed order.
C13_Witness ==
    /\ op.name = "check_alerts"
    /\ Live(op.run_id)
    /\ \A i \in 1..4 : Breached(Metrics(op.run_id), AlertOrder[i])
    /\ [ i \in DOMAIN alerts |-> alerts[i].type ] = AlertOrder
    /\ Len(sent) = 4

\* C14: a check_alerts call, on a live or an absent run id, leaves the live
\* table, every run's fields and counters, and the thresholds as they were; the
\* monitor's operations read nothing else but the clock, so what they do
\* afterwards is what they would have done without the call.
C14_CheckAlertsFrame ==
    [][ Called("check_alerts") =>
          /\ active_runs' = active_runs
          /\ heap' = heap
          /\ thresholds' = thresholds
          /\ now' = now
          /\ held' = held /\ heldVal' = heldVal ]_vars

\* check_alerts has run on a live run that an update gave a memory sample, and
\* has raised an alert for it.
C14_Witness ==
    /\ op.name = "check_alerts"
    /\ Live(op.run_id)
    /\ Metrics(op.run_id).memory_usage_mb # None
    /\ Len(alerts) > 0

\* The "Failed to send alert" events in the log.
FailuresLogged == SelectSeq(logged, LAMBDA e : e.level = "error")

\* C15: when the delivery of an alert fails, check_alerts still attempts every
\* alert of the evaluation (each has an outcome), returns normally, logs each
\* failure, and leaves the live table and the run's status and counters alone.
C15_DispatchIsolated ==
    [][ Called("check_alerts") =>
          /\ DOMAIN sent' = DOMAIN alerts'
          /\ ret' = None
          /\ Len(FailuresLogged') = Len(SelectSeq(sent', LAMBDA o : o = "failed"))
          /\ active_runs' = active_runs
          /\ heap' = heap ]_vars

\* The first delivery failed and the second alert was still delivered.
C15_Witness ==
    /\ op.name = "check_alerts"
    /\ Len(alerts) >= 2
    /\ sent[1] = "failed"
    /\ sent[2] = "delivered"
    /\ Live(op.run_id)
    /\ Metrics(op.run_id).status = "running"

\* The threads that run `call`, and whether every thread has returned or raised.
Callers(call) == { t \in Threads : threads[t].call = call }
AllReturned == \A t \in Threads : threads[t].pc \in {"done", "KeyError"}
Removed == ThreadRun \notin DictKeys(active_runs)

\* C16: the monitor does not serialize its operations.  What does hold without
\* a lock: once every thread has returned, a counter has grown by at most one
\* per log call and, when no complete ran, by at least one if there was a call;
\* and a thread raises KeyError or writes to a removed run only where a complete
\* has removed it.  That the counter grows by exactly one per call does not
\* hold: the witness is the lost update.
C16_Unserialized ==
    /\ AllReturned =>
          \A call \in {"log_error", "log_warning"} :
             LET grown == heap[1][CounterOf(call)] IN
             /\ grown <= Cardinality(Callers(call))
             /\ ( Callers(call) # {} /\ Callers("complete") = {} ) => grown >= 1
    /\ \A t \in Threads :
          ( threads[t].stale \/ threads[t].pc = "KeyError" ) =>
              /\ Removed
              /\ \E c \in Callers("complete") : threads[c].pc = "done"

\* Two threads called log_error once each on the live run, both wrote while it
\* was live, and errors_count is 1; an update of the same run, interleaved with a
\* complete, wrote to the run after it was removed.
C16_Witness ==
    /\ AllReturned
    /\ Cardinality(Callers("log_error")) = 2
    /\ \A t \in Callers("log_error") : threads[t].pc = "done" /\ ~threads[t].stale
    /\ heap[1].errors_count = 1
    /\ \E u \in Callers("update") : threads[u].stale
    /\ \E c \in Callers("complete") : threads[c].pc = "done"

\* The rows of the column that are null, counted without the report's code.
NullRows == { i \in DOMAIN quality.column : quality.column[i] = None }
TestColumn == << Some("POL001"), Some("POL002"), None, Some("POL004"), Some("POL002") >>

\* C17: for a batch of n records in which the column is null in k, the report's
\* completeness is exactly (n - k) / n, and it is 1 exactly when no value is null.
C17_Completeness ==
    quality.report # None =>
        LET n == Len(quality.column)
            k == Cardinality(NullRows)
            c == Val(quality.report).completeness IN
        /\ c.den > 0
        /\ c.num * n = (n - k) * c.den
        /\ c.num = c.den <=> k = 0

\* One null in five rows: completeness 4/5.
C17_Witness ==
    /\ quality.column = TestColumn
    /\ quality.report # None
    /\ Val(quality.report).completeness = Ratio(4, 5)

\* The column with rows i and j exchanged.
Swap(col, i, j) == [ col EXCEPT ![i] = col[j], ![j] = col[i] ]

\* C18: the report's uniqueness is the number of distinct non-null values over
\* the number of non-null values, 0 when there is no non-null value, and is the
\* same for every reordering of the records (every exchange of two rows).
C18_Uniqueness ==
    quality.report # None =>
        LET col == quality.column
            nonNull == DOMAIN col \ NullRows
            distinct == { col[i] : i \in nonNull }
            u == Val(quality.report).uniqueness IN
        /\ u.den > 0
        /\ nonNull = {} => u.num = 0
        /\ nonNull # {} => u.num * Cardinality(nonNull) = Cardinality(distinct) * u.den
        /\ \A i, j \in DOMAIN col : Uniqueness(Swap(col, i, j)) = u

\* [A, B, null, C, B]: uniqueness 3/4.
C18_Witness ==
    /\ quality.column = TestColumn
    /\ quality.report # None
    /\ Val(quality.report).uniqueness = Ratio(3, 4)

\* C19: the verdict is fail exactly when a mandatory rule has a violation, or
\* the required column's completeness is below the threshold, or the key
\* column's uniqueness is below 1; and the pipeline's data-quality step reports
\* failure exactly when the verdict is fail.
C19_StepReportsVerdict ==
    quality.step # None =>
        ( Val(quality.step) = FALSE <=> Verdict(quality) = "fail" )

\* C20: generate_report sets overall_status to unhealthy if any result is
\* unhealthy, otherwise to degraded if any is degraded, otherwise to healthy
\* (also for the empty list); total_checks is the number of results; and when
\* every status is one of the three strings the three counts add up to it.
C20_HealthBuckets ==
    health.report # None =>
        LET results == health.results
            report == Val(health.report)
            has(s) == \E i \in DOMAIN results : results[i].status = s IN
        /\ has("unhealthy") => report.overall_status = "unhealthy"
        /\ ( ~has("unhealthy") /\ has("degraded") ) => report.overall_status = "degraded"
        /\ ( ~has("unhealthy") /\ ~has("degraded") ) => report.overall_status = "healthy"
        /\ report.total_checks = Len(results)
        /\ ( \A i \in DOMAIN results : results[i].status \in HealthStatuses ) =>
              report.healthy_checks + report.degraded_checks + report.unhealthy_checks
                = report.total_checks

\* A degraded result comes before an unhealthy one: the report is unhealthy.
C20_Witness ==
    /\ health.report # None
    /\ Len(health.results) = 3
    /\ health.results[1].status = "degraded"
    /\ health.results[2].status = "unhealthy"
    /\ health.results[3].status = "healthy"
    /\ Val(health.report).overall_status = "unhealthy"
    /\ Val(health.report).healthy_checks = 1

\* The orchestrator's steps in the order run_pipeline calls them.
StepOrder == << "ingestion", "transformations", "data_quality" >>
\* Whether the step has run, and what it returned.
Ran(step) == \E i \in DOMAIN orch.results : orch.results[i].step = step
Returned(step, ok) ==
    \E i \in DOMAIN orch.results : orch.results[i] = StepResult(step, ok)
PipelineReturned == orch.pc \in {"returned", "exited"}
\* The subprocess commands started so far, in order.
Commands == [ i \in DOMAIN orch.procs |-> orch.procs[i].cmd ]

\* C21: the steps run in the order ingestion, transformations, data quality,
\* each only after the one before it returned True: after a failed ingestion
\* neither of the others is started, after failed transformations the quality
\* checks are not started, and in both cases run_pipeline returns False.
C21_StepsInOrder ==
    /\ Len(orch.results) <= Len(StepOrder)
    /\ \A i \in DOMAIN orch.results :
          /\ orch.results[i].step = StepOrder[i]
          /\ i > 1 => orch.results[i - 1].ok
    /\ Returned("ingestion", FALSE) =>
          /\ ~Ran("transformations") /\ ~Ran("data_quality")
          /\ Commands = << "ingestion.py" >>
          /\ orch.ret = Some(FALSE)
    /\ Returned("transformations", FALSE) =>
          /\ ~Ran("data_quality")
          /\ orch.ret = Some(FALSE)

\* Ingestion succeeded and the transformations failed: run_pipeline has
\* returned False and the quality checks never ran.
C21_Witness ==
    /\ orch.results = << StepResult("ingestion", TRUE), StepResult("transformations", FALSE) >>
    /\ orch.pc = "exited"
    /\ orch.ret = Some(FALSE)

\* C22: run_pipeline returns True exactly when the ingestion, transformation
\* and data-quality steps all returned True, and otherwise returns False (an
\* exception inside a step makes the step False); the process exits with 0
\* exactly when run_pipeline returned True, otherwise with 1.
C22_PipelineResult ==
    /\ PipelineReturned =>
          /\ orch.ret \in {Some(TRUE), Some(FALSE)}
          /\ orch.ret = Some(TRUE) <=> \A i \in DOMAIN StepOrder : Returned(StepOrder[i], TRUE)
    /\ orch.pc = "exited" =>
          /\ orch.exit = Some(0) <=> orch.ret = Some(TRUE)
          /\ orch.exit = Some(1) <=> orch.ret = Some(FALSE)
    /\ \A i \in DOMAIN orch.procs :
          ( orch.procs[i].outcome \in {"timeout", "error"} /\ PipelineReturned )
              => orch.ret = Some(FALSE)

\* dbt run timed out: the step returned False, run_pipeline False, exit code 1.
C22_Witness ==
    /\ orch.pc = "exited"
    /\ orch.procs[Len(orch.procs)] = ProcCall("dbt run", "timeout")
    /\ orch.ret = Some(FALSE)
    /\ orch.exit = Some(1)

\* The outcome of the dbt command, once run_dbt_transformations has made the call.
DbtOutcome(cmd) ==
    LET made == SelectSeq(orch.procs, LAMBDA c : c.cmd = cmd) IN
    IF made = <<>> THEN None ELSE Some(made[1].outcome)
Exited(cmd) == DbtOutcome(cmd) \in {Some("exit0"), Some("exit1")}

\* C26 as stated: run_dbt_transformations returns True if and only if dbt run
\* exits with code 0.
C26_AsStated ==
    Ran("transformations") =>
        ( Returned("transformations", TRUE) <=> DbtOutcome("dbt run") = Some("exit0") )

\* C26: run_dbt_transformations returns True if and only if dbt run exits
\* with code 0 and dbt test then returns with any exit code; a non-zero exit of
\* dbt deps or dbt test does not fail the step; dbt run is started whenever
\* dbt deps returned, dbt test only after dbt run exited 0; a timeout or other
\* exception in any of the three calls gives False.
C26_DbtResult ==
    Ran("transformations") =>
        /\ Returned("transformations", TRUE) <=>
              ( DbtOutcome("dbt run") = Some("exit0") /\ Exited("dbt test") )
        /\ DbtOutcome("dbt run") # None <=> Exited("dbt deps")
        /\ DbtOutcome("dbt test") # None <=> DbtOutcome("dbt run") = Some("exit0")
        /\ ( \E i \in DOMAIN orch.procs :
                 orch.procs[i].cmd # "ingestion.py" /\ orch.procs[i].outcome \in {"timeout", "error"} )
              => Returned("transformations", FALSE)
        /\ Commands \in { << "ingestion.py", "dbt deps" >>,
                           << "ingestion.py", "dbt deps", "dbt run" >>,
                           << "ingestion.py", "dbt deps", "dbt run", "dbt test" >> }

\* dbt deps and dbt test exited non-zero, dbt run with 0: the step returned True.
C26_Witness ==
    /\ DbtOutcome("dbt deps") = Some("exit1")
    /\ DbtOutcome("dbt run") = Some("exit0")
    /\ DbtOutcome("dbt test") = Some("exit1")
    /\ Returned("transformations", TRUE)

Ingested(source) == { ingest.calls[i] : i \in { j \in DOMAIN ingest.calls : ingest.calls[j].source = source } }
\* The rows the table has beyond the ones it held before the run.
Written(source) ==
    SubSeq(ingest.tables[source], Len(OldTable) + 1, Len(ingest.tables[source]))
BatchKeys(source) == { ingest.source[source][i] : i \in DOMAIN ingest.source[source] }

\* C23: a successful ingest call writes exactly one record for each distinct
\* key of the batch it read, so at most as many as it read and with pairwise
\* distinct keys; the rows already in the table stay as they were (also when
\* the call fails, which writes nothing); and the duplicates warning is logged
\* exactly when the count before and the count after deduplication differ.
C23_DedupeAppend ==
    \A source \in Sources :
        LET batch == ingest.source[source]
            table == ingest.tables[source]
            written == Written(source) IN
        /\ SubSeq(table, 1, Len(OldTable)) = OldTable
        /\ ( \A c \in Ingested(source) : ~c.ok ) => table = OldTable
        /\ \A c \in Ingested(source) :
              /\ c.ok =>
                    /\ { written[i].key : i \in DOMAIN written } = BatchKeys(source)
                    /\ \A i, j \in DOMAIN written : written[i].key = written[j].key => i = j
                    /\ \A i \in DOMAIN written : batch[written[i].row] = written[i].key
                    /\ Len(written) = Val(c.final)
                    /\ Len(written) <= Len(batch)
                    /\ Val(c.initial) = Len(batch)
              /\ c.initial # None => ( c.warned <=> c.initial # c.final )
              /\ c.initial = None => ~c.warned

\* A claims batch k1, k1, k2: two records written after the old row, the
\* second k1 row kept, and the warning logged.
C23_Witness ==
    /\ ingest.source["claims"] = << "k1", "k1", "k2" >>
    /\ ingest.tables["claims"] = OldTable \o << Row("k1", 2), Row("k2", 3) >>
    /\ \E c \in Ingested("claims") : c.ok /\ c.warned

IngestResult(source, ok) ==
    \E i \in DOMAIN ingest.results : ingest.results[i] = [source |-> source, ok |-> ok]

\* C27: run_ingestion_pipeline attempts claims and then policies ingestion on
\* every run: a failed claims ingestion is recorded as False and policies
\* ingestion still runs; a failure inside an ingest call becomes False and does
\* not end the pipeline; the Spark session is stopped before the pipeline
\* returns; and the process exits with 0 only if both results are True.
C27_IngestionPipeline ==
    /\ ingest.pc \in {"stop", "returned"} \/ ( ingest.pc = "exited" /\ ingest.results # <<>> ) =>
          /\ Len(ingest.results) = 2
          /\ ingest.results[1].source = "claims"
          /\ ingest.results[2].source = "policies"
    /\ \A i \in DOMAIN ingest.calls :
          /\ ingest.calls[i].ok = ingest.results[i].ok
          /\ ingest.calls[i].source = ingest.results[i].source
    /\ ingest.pc = "returned" => ingest.spark = "stopped"
    /\ ingest.pc = "exited" => ingest.exit \in {Some(0), Some(1)}
    /\ ingest.exit = Some(0) =>
          /\ IngestResult("claims", TRUE) /\ IngestResult("policies", TRUE)
          /\ ingest.spark = "stopped"

\* Claims ingestion failed, policies ingestion ran and succeeded, the session
\* was stopped and the process exited with 1.
C27_Witness ==
    /\ IngestResult("claims", FALSE)
    /\ IngestResult("policies", TRUE)
    /\ ingest.spark = "stopped"
    /\ ingest.exit = Some(1)

(* ---- health_check.py: main and run_all_checks ------------------------- *)

HealthExited == health # Idle /\ health.exit # None

\* C24 (as stated): whenever the health-check process has exited, its exit
\* code is 1 for an unhealthy report, 2 for a degraded one and 0 for a
\* healthy one, for both output formats and with or without an output file.
C24_ExitCodeByStatus ==
    ( HealthExited /\ health.report # None ) =>
        LET overall_status == Val(health.report).overall_status IN
        /\ overall_status = "unhealthy" => health.exit = Some(1)
        /\ overall_status = "degraded"  => health.exit = Some(2)
        /\ overall_status = "healthy"   => health.exit = Some(0)

\* C25: once run_all_checks has returned, the results are exactly five, one
\* per check in the order azure storage, key vault, databricks, container
\* registry, data freshness; a check that met an exception or a failure has
\* an unhealthy result at its own position, and every other check has the
\* status it found, whatever happened to the checks before it.
C25_FiveResultsInOrder ==
    ( health # Idle /\ health.pc \notin {"checks"} /\ health.met # <<>> ) =>
        /\ Len(health.results) = 5
        /\ Len(health.results) = Len(ServiceNames)
        /\ \A i \in 1..Len(ServiceNames) :
             /\ health.results[i].service = ServiceNames[i]
             /\ health.met[i] \in {"exception", "unhealthy"}
                    => health.results[i].status = "unhealthy"
             /\ health.met[i] \in {"healthy", "degraded"}
                    => health.results[i].status = health.met[i]

\* The first check met an exception and the last one still ran and reported
\* stale data.
C25_Witness ==
    /\ health # Idle
    /\ health.met # <<>>
    /\ health.met[1] = "exception"
    /\ health.met[3] = "unhealthy"
    /\ Len(health.results) = 5
    /\ health.results[1].status = "unhealthy"
    /\ health.results[4].status = "healthy"
    /\ health.results[5].status = "degraded"


(* ---- pipeline_monitor.py: the run table's keys ------------------------- *)

\* C28: in every reachable state of active_runs the entry stored under key k
\* is a run whose run_id is k, and no two entries share a key, whatever
\* start, update, log_error, log_warning and complete calls were made.
C28_KeyIsRunId ==
    /\ \A i \in DOMAIN active_runs :
         heap[active_runs[i].ref].run_id = active_runs[i].key
    /\ \A i, j \in DOMAIN active_runs :
         active_runs[i].key = active_runs[j].key => i = j

\* Two live runs, one of them renamed by an update and started again.
C28_Witness ==
    /\ Live("r1") /\ Live("r2")
    /\ op.name = "update" /\ op.run_id = "r1"
    /\ Metrics("r1").pipeline_name = "p2"
    /\ Metrics("r1").run_id = "r1"
    /\ Metrics("r2").run_id = "r2"


(* ---- pipeline_monitor.py: duration of live runs ------------------------ *)

\* C29: when no update names duration_seconds, every live run has
\* duration_seconds unset, so check_alerts emits no duration alert for any
\* run, and for a run id that is not live it emits no alert at all.
C29_LiveRunsHaveNoDuration ==
    /\ \A r \in RunIds : Live(r) => Metrics(r).duration_seconds = None
    /\ op.name = "check_alerts" => AlertsOfType("duration") = <<>>
    /\ ( op.name = "check_alerts" /\ ~Live(op.run_id) ) => alerts = <<>>


====
